---- MODULE Spec2Model ----
(***************************************************************************)
(* scrapetable: pull a <table> out of a downloaded file.                   *)
(*                                                                         *)
(* The model follows src/scrapetable.py: fetch_arrow() stores one snapshot *)
(* and a list of RenderError records; render() classifies the snapshot     *)
(* (zero bytes / Parquet magic number / httpfile), and on the httpfile     *)
(* path checks the status line, locates the tables, validates the table    *)
(* number and writes the chosen table through the CSV round trip.          *)
(***************************************************************************)
EXTENDS Integers, Sequences, FiniteSets, TLC

VARIABLES
    snapshot,      \* the file at fetch_result.path / fetch's output_path
    fetch_errors,  \* fetch_result.errors: a list of RenderError records
    pc,            \* position of the running invocation ("idle" when none)
    params,        \* params of the running invocation
    output,        \* the file at render's output_path
    out_before,    \* what output_path held when render was called
    errors,        \* render's local list `errors`
    tables,        \* render's local list `tables`
    table,         \* render's local `table`
    result,        \* the value the invocation returned
    visited,       \* the stages the running render went through, in order
    nwrites,       \* table artifacts written by the running render
    attempts,      \* calls of httpfile.download by the running fetch
    caught,        \* the HttpError's message while fetch handles it
    snap_before,   \* what output_path held when fetch_arrow was called
    arg_names,     \* the argument of a call of _merge_colspan_headers
    ret,           \* what that call returned
    settings,      \* the settings render was called with
    default_errors, \* the list that is the default of FetchResult.errors
    shares_default, \* fetch_result.errors is that very list
    aliased,       \* render's `errors` is the list fetch_result.errors
    carried        \* fetch_result.errors as it was when render was called

vars == << snapshot, fetch_errors, pc, params, output, out_before, errors,
           tables, table, result, visited, nwrites, attempts, caught,
           snap_before, arg_names, ret, settings,
           default_errors, shares_default, aliased, carried >>

(***************************************************************************)
(* Bounds of the model.                                                    *)
(***************************************************************************)
MaxRows == 2       \* data rows of a DataFrame
MaxTables == 2     \* tables located in one document
MaxCarried == 2    \* RenderErrors carried in fetch_result.errors
MaxNames == 2      \* column names given to _merge_colspan_headers
MaxLevels == 3     \* header rows of one tuple column name
TightLimit == 1    \* MAX_ROWS_PER_TABLE / MAX_COLUMNS_PER_TABLE of a tight Settings

(***************************************************************************)
(* Sequence helpers.                                                       *)
(***************************************************************************)
SeqsUpTo(S, n) == UNION { [1..k -> S] : k \in 0..n }

RECURSIVE Contains(_, _)
Contains(s, x) ==
    IF s = << >> THEN FALSE
    ELSE IF Head(s) = x THEN TRUE ELSE Contains(Tail(s), x)

\* Python's seq[i]: zero-based, negative indices count from the end.
PyIndex(s, i) == IF i >= 0 THEN s[i + 1] ELSE s[Len(s) + i + 1]

(***************************************************************************)
(* I18nMessage and RenderError.                                            *)
(***************************************************************************)
I18nMessage(id, arguments, source) ==
    [id |-> id, arguments |-> arguments, source |-> source]

\* cjwmodule.i18n.trans(): a message of this module's catalog
trans(id, arguments) == I18nMessage(id, arguments, "module")

\* a message of the cjwmodule catalog (HttpError.i18n_message, parse_csv)
cjwmodule_message(id, arguments) == I18nMessage(id, arguments, "cjwmodule")

RenderError(message) == [message |-> message, quick_fixes |-> << >>]

HttpErrorMessages ==
    { cjwmodule_message("http.errors.HttpErrorTimeout", << >>),
      cjwmodule_message("http.errors.HttpErrorGeneric", << >>) }

\* every list fetch_result.errors the host may hand to render
CarriedLists == SeqsUpTo({ RenderError(m) : m \in HttpErrorMessages }, MaxCarried)

\* [e.message for e in fetch_result.errors]
Messages(errs) == [i \in 1..Len(errs) |-> errs[i].message]

(***************************************************************************)
(* pandas DataFrames.  A column name is <<"str", s>>, <<"int", i>> (a      *)
(* positional index: no <thead>) or <<"tuple", <<s1, ..., sn>>>> (one text *)
(* per header row).  Cells are text: render reads them with dtype=str.     *)
(***************************************************************************)
StrName(s) == << "str", s >>
IntName(i) == << "int", i >>
TupleName(t) == << "tuple", t >>

DataFrame(columns, rows) == [columns |-> columns, rows |-> rows]

NoTable == DataFrame(<< >>, << >>)

RowPool == << << "1", "a" >>, << "2", "b" >>, << "", "c" >>, << "A", "B" >> >>

RowOf(i) == RowPool[((i - 1) % Len(RowPool)) + 1]

FirstRows(n) == [i \in 1..n |-> RowOf(i)]

ColumnLists ==
    << << StrName("A"), StrName("B") >>,
       << IntName(0), IntName(1) >>,
       << TupleName(<< "Category", "A" >>), TupleName(<< "Category", "B" >>) >> >>

NFrames == Len(ColumnLists) * (MaxRows + 1)

\* the DataFrames of the model, enumerated: every column list with 0..MaxRows rows
FrameAt(i) ==
    LET k == (i - 1) % NFrames
    IN  DataFrame(ColumnLists[(k % Len(ColumnLists)) + 1],
                  FirstRows(k \div Len(ColumnLists)))

Frames == { FrameAt(i) : i \in 1..NFrames }

\* a Parquet file holds str column names only
ParquetFrames == { f \in Frames : \A i \in 1..Len(f.columns) : f.columns[i][1] = "str" }

(***************************************************************************)
(* Files.  size is st_size (0 or more), head the leading bytes, and the    *)
(* rest is what the format's reader gives back.                            *)
(***************************************************************************)
File(size, head, status_line, body, frame) ==
    [size |-> size, head |-> head, status_line |-> status_line,
     body |-> body, frame |-> frame]

\* the body of a response: the kind of page it is, and the tables with cells
\* it holds, in document order
Body(kind, found) == [kind |-> kind, tables |-> found]

NoBody == Body("tables", << >>)

\* pages in which pandas finds no table: no <table> tag, <table></table>, and
\* a table whose rows have no cells
TablelessKinds == { "no_table", "empty_table", "empty_tr" }

\* what pd.io.html._parse() gives: an exception raised, or a list of tables
Parsed(raises, found) == [raises |-> raises, tables |-> found]

\* pd.io.html._parse(): ValueError when it finds no table, IndexError for a
\* table with no columns, else the list of tables (which may be empty)
_parse(body) ==
    IF body.kind \in TablelessKinds THEN Parsed("ValueError", << >>)
    ELSE IF body.kind = "no_columns" THEN Parsed("IndexError", << >>)
    ELSE Parsed("", body.tables)

EmptyFile == File(0, "", "", NoBody, NoTable)

ParquetFile(frame) == File(1, "PAR1", "", NoBody, frame)

HttpFile(status_line, body) == File(1, "HTTP", status_line, body, NoTable)

\* non-empty, no Parquet magic number, not an httpfile either
UnknownFile == File(1, "junk", "", NoBody, NoTable)

StatusLines == { "200 OK", "204 No Content", "404 Not Found", "500 Internal Server Error" }

\* the documents: n tables in document order, starting anywhere in Frames
Bodies ==
    { Body(kind, << >>) : kind \in TablelessKinds \cup { "no_columns" } }
    \cup { Body("tables", [k \in 1..n |-> FrameAt(first + k - 1)]) :
             n \in 0..MaxTables, first \in 1..NFrames }

HttpFiles == { HttpFile(s, b) : s \in StatusLines, b \in Bodies }

Snapshots ==
    { EmptyFile, UnknownFile } \cup { ParquetFile(f) : f \in ParquetFrames } \cup HttpFiles

\* path.stat().st_size
st_size(file) == file.size

\* cjwparquet.file_has_parquet_magic_number(path)
file_has_parquet_magic_number(file) == file.head = "PAR1"

(***************************************************************************)
(* _merge_colspan_headers(): turn the column names pandas gives into text. *)
(***************************************************************************)
\* dict_keys that drops a text only when it repeats the one just before it
RECURSIVE dict_keys_consecutive(_, _)
dict_keys_consecutive(name, seen) ==
    IF name = << >> THEN seen
    ELSE IF seen # << >> /\ seen[Len(seen)] = Head(name)
         THEN dict_keys_consecutive(Tail(name), seen)
         ELSE dict_keys_consecutive(Tail(name), Append(seen, Head(name)))

\* dict((s, None) for s in name).keys(): the texts in insertion order, each
\* kept where it first appears; `seen` is the dict built so far
RECURSIVE dict_keys(_, _)
dict_keys(name, seen) ==
    IF name = << >> THEN seen
    ELSE IF Contains(seen, Head(name))
         THEN dict_keys(Tail(name), seen)
         ELSE dict_keys(Tail(name), Append(seen, Head(name)))

\* sep.join(parts)
RECURSIVE join(_, _)
join(sep, parts) ==
    IF parts = << >> THEN ""
    ELSE IF Len(parts) = 1 THEN parts[1]
    ELSE parts[1] \o sep \o join(sep, Tail(parts))

\* the body of the loop: one name
merge_name(name) ==
    CASE name[1] = "tuple" -> join(" - ", dict_keys(name[2], << >>))
      [] name[1] = "int" -> ""
      [] OTHER -> name[2]

_merge_colspan_headers(names) == [i \in 1..Len(names) |-> merge_name(names[i])]

(***************************************************************************)
(* _write_dataframe_as_arrow_table_and_handle_lots_of_edge_cases(): the    *)
(* DataFrame goes to a CSV file and through cjwparse.csv.parse_csv().      *)
(***************************************************************************)
\* the file parse_csv() writes: an Arrow table
ArrowFile(columns, rows) == [size |-> 1, columns |-> columns, rows |-> rows]

\* a zero-byte output file
EmptyOutput == [size |-> 0, columns |-> << >>, rows |-> << >>]

\* what output_path may hold when render is called
OutputsBefore == { EmptyOutput, ArrowFile(<< "old" >>, << << "x" >> >>) }

Digit == << "0", "1", "2", "3", "4", "5", "6", "7", "8", "9" >>

\* str(n), n >= 0
RECURSIVE NumText(_)
NumText(n) ==
    IF n < 10 THEN Digit[n + 1]
    ELSE NumText(n \div 10) \o Digit[(n % 10) + 1]

\* `header = False` or `header = colnames`
NoHeader == [given |-> FALSE, names |-> << >>]
Header(colnames) == [given |-> TRUE, names |-> colnames]

\* csv_header without `and len(table)`
csv_header_trusts_flag(frame, first_row_is_header, colnames) ==
    IF first_row_is_header THEN NoHeader ELSE Header(colnames)

\* lines 138-141: which header row to_csv() writes
csv_header(frame, first_row_is_header, colnames) ==
    IF first_row_is_header /\ Len(frame.rows) > 0
    THEN NoHeader
    ELSE Header(colnames)

\* table.to_csv(header=header, index=False): the rows of the CSV file
to_csv(frame, header) ==
    IF header.given THEN << header.names >> \o frame.rows ELSE frame.rows

\* parse_csv() names a blank column "Column N" (N counts from 1)
clean_colname(name, position) ==
    IF name = "" THEN "Column " \o NumText(position) ELSE name

BlankPositions(names) == { i \in 1..Len(names) : names[i] = "" }

Min(S) == CHOOSE x \in S : \A y \in S : x <= y

\* the Settings protocol: the two limits on a table's shape
Settings(max_rows, max_columns) ==
    [MAX_ROWS_PER_TABLE |-> max_rows, MAX_COLUMNS_PER_TABLE |-> max_columns]

DefaultMaxRows == 1000
DefaultMaxColumns == 10

DefaultSettings == Settings(DefaultMaxRows, DefaultMaxColumns)

\* the settings a host may call render with: the defaults, and tight limits
SettingsSet ==
    { Settings(r, c) : r \in { TightLimit, DefaultMaxRows },
                       c \in { TightLimit, DefaultMaxColumns } }

\* the first n entries of a list
FirstN(list, n) == SubSeq(list, 1, IF Len(list) < n THEN Len(list) ELSE n)

\* rows beyond MAX_ROWS_PER_TABLE are dropped
truncate_rows(rows, limits) == FirstN(rows, limits.MAX_ROWS_PER_TABLE)

\* columns beyond MAX_COLUMNS_PER_TABLE are dropped from the right
truncate_columns(row, limits) == FirstN(row, limits.MAX_COLUMNS_PER_TABLE)

\* the diagnostics that report the dropped rows and columns
truncation_warnings(names, rows, limits) ==
    (IF Len(rows) > limits.MAX_ROWS_PER_TABLE
     THEN << cjwmodule_message("truncated.rows",
                               << << "n_rows", limits.MAX_ROWS_PER_TABLE >> >>) >>
     ELSE << >>)
    \o (IF Len(names) > limits.MAX_COLUMNS_PER_TABLE
        THEN << cjwmodule_message("truncated.columns",
                                  << << "n_columns", limits.MAX_COLUMNS_PER_TABLE >> >>) >>
        ELSE << >>)

\* the names of the columns, and the warning about the blank ones
cleaned_header(names) ==
    LET blank == BlankPositions(names)
    IN  [names |-> [i \in 1..Len(names) |-> clean_colname(names[i], i)],
         warnings |->
             IF blank = { } THEN << >>
             ELSE << cjwmodule_message(
                         "util.colnames.warnings.default",
                         << << "n_columns", Cardinality(blank) >>,
                            << "first_colname", clean_colname("", Min(blank)) >> >>) >>]

\* parse_csv(has_header=True, settings=settings): the first CSV row names the
\* columns, the rest is data; then the limits of `settings` are applied
parse_csv(csv, limits) ==
    IF csv = << >>
    THEN [file |-> EmptyOutput, warnings |-> << >>]
    ELSE LET header == cleaned_header(Head(csv))
             kept == truncate_rows(Tail(csv), limits)
         IN  [file |-> ArrowFile(truncate_columns(header.names, limits),
                                 [i \in 1..Len(kept) |->
                                     truncate_columns(kept[i], limits)]),
              warnings |->
                  header.warnings
                  \o truncation_warnings(Head(csv), Tail(csv), limits)]

\* write_dataframe that writes the CSV rows as they are, past parse_csv's limits
write_dataframe_unbounded(frame, first_row_is_header, colnames, limits) ==
    LET csv == to_csv(frame, csv_header(frame, first_row_is_header, colnames))
    IN  IF csv = << >>
        THEN [file |-> EmptyOutput, warnings |-> << >>]
        ELSE [file |-> ArrowFile(cleaned_header(Head(csv)).names, Tail(csv)),
              warnings |-> cleaned_header(Head(csv)).warnings]

\* lines 143-154: to_csv(), then parse_csv(..., settings=settings)
write_dataframe(frame, first_row_is_header, colnames, limits) ==
    parse_csv(to_csv(frame, csv_header(frame, first_row_is_header, colnames)), limits)

(***************************************************************************)
(* params, and the state between invocations.                              *)
(***************************************************************************)
\* params["url"]: None, "" or an address
Url(present, text) == [present |-> present, text |-> text]

Urls == { Url(FALSE, ""), Url(TRUE, ""), Url(TRUE, "http://example.org") }

\* `not url`
not_url(url) == ~url.present \/ url.text = ""

P(url, tablenum, first_row_is_header) ==
    [url |-> url, tablenum |-> tablenum, first_row_is_header |-> first_row_is_header]

Tablenums == (-1)..(MaxTables + 1)

NoMessage == I18nMessage("", << >>, "")

\* no invocation is running: every local is cleared
Idle ==
    /\ pc = "idle"
    /\ params = P(Url(FALSE, ""), 1, FALSE)
    /\ output = EmptyOutput
    /\ out_before = EmptyOutput
    /\ errors = << >>
    /\ tables = << >>
    /\ table = NoTable
    /\ result = << >>
    /\ visited = << >>
    /\ nwrites = 0
    /\ attempts = 0
    /\ caught = NoMessage
    /\ snap_before = EmptyFile
    /\ settings = DefaultSettings
    /\ aliased = FALSE
    /\ carried = << >>

\* the invocation is over: back to Idle
to_idle ==
    /\ pc' = "idle"
    /\ params' = P(Url(FALSE, ""), 1, FALSE)
    /\ output' = EmptyOutput
    /\ out_before' = EmptyOutput
    /\ errors' = << >>
    /\ tables' = << >>
    /\ table' = NoTable
    /\ result' = << >>
    /\ visited' = << >>
    /\ nwrites' = 0
    /\ attempts' = 0
    /\ caught' = NoMessage
    /\ snap_before' = EmptyFile
    /\ settings' = DefaultSettings
    /\ aliased' = FALSE
    /\ carried' = << >>

\* line 47: `errors: List[RenderError] = []`, one list for every FetchResult
\* made without errors; the host's FetchResult has it or a list of its own
Init ==
    /\ snapshot \in Snapshots
    /\ fetch_errors \in CarriedLists
    /\ default_errors = << >>
    /\ shares_default \in (IF fetch_errors = default_errors THEN BOOLEAN ELSE { FALSE })
    /\ Idle
    /\ arg_names = << >>
    /\ ret = << >>

(***************************************************************************)
(* fetch_arrow()                                                           *)
(***************************************************************************)
\* fetch_arrow that empties output_path when there is no url
fetch_arrow_writes_empty ==
    /\ pc = "idle"
    /\ \E url \in Urls :
         /\ params' = P(url, params.tablenum, params.first_row_is_header)
         /\ IF not_url(url)
            THEN /\ fetch_errors' = default_errors
                 /\ shares_default' = TRUE
                 /\ snapshot' = EmptyFile
                 /\ pc' = "fetch_done"
            ELSE /\ UNCHANGED << fetch_errors, shares_default >>
                 /\ snapshot' = snapshot
                 /\ pc' = "download"
    /\ attempts' = 0
    /\ snap_before' = snapshot
    /\ UNCHANGED << output, out_before, errors, tables, table, result,
                    visited, nwrites, caught, arg_names, ret, settings,
                    default_errors, aliased, carried >>

\* lines 68-70: `if not url: return FetchResult(output_path)`
fetch_arrow ==
    /\ pc = "idle"
    /\ \E url \in Urls :
         /\ params' = P(url, params.tablenum, params.first_row_is_header)
         /\ IF not_url(url)
            THEN /\ fetch_errors' = default_errors
                 /\ shares_default' = TRUE
                 /\ pc' = "fetch_done"
            ELSE /\ UNCHANGED << fetch_errors, shares_default >>
                 /\ pc' = "download"
    /\ attempts' = 0
    /\ snap_before' = snapshot
    /\ UNCHANGED << snapshot, output, out_before, errors, tables, table, result,
                    visited, nwrites, caught, arg_names, ret, settings,
                    default_errors, aliased, carried >>

\* lines 73, 78: httpfile.download() wrote the response; return no errors
download_ok ==
    /\ pc = "download"
    /\ attempts' = attempts + 1
    /\ \E file \in HttpFiles : snapshot' = file
    /\ fetch_errors' = default_errors
    /\ shares_default' = TRUE
    /\ pc' = "fetch_done"
    /\ UNCHANGED << params, output, out_before, errors, tables, table, result,
                    visited, nwrites, caught, snap_before, arg_names, ret, settings,
                    default_errors, aliased, carried >>

\* lines 73-74: httpfile.download() raised HttpError, maybe after writing
\* part of a response
download_raises ==
    /\ pc = "download"
    /\ attempts' = attempts + 1
    /\ \E message \in HttpErrorMessages : caught' = message
    /\ \E file \in { snapshot, UnknownFile } : snapshot' = file
    /\ pc' = "except"
    /\ UNCHANGED << fetch_errors, params, output, out_before, errors, tables, table,
                    result, visited, nwrites, snap_before, arg_names, ret, settings,
                    default_errors, shares_default, aliased, carried >>

\* except_HttpError without `output_path.write_bytes(b"")`
except_HttpError_keeps_file ==
    /\ pc = "except"
    /\ fetch_errors' = << RenderError(caught) >>
    /\ shares_default' = FALSE
    /\ pc' = "fetch_done"
    /\ UNCHANGED << snapshot, params, output, out_before, errors, tables, table,
                    result, visited, nwrites, attempts, caught, snap_before,
                    arg_names, ret, settings,
                    default_errors, aliased, carried >>

\* lines 75-76: write b"" and return the one error
except_HttpError ==
    /\ pc = "except"
    /\ snapshot' = EmptyFile
    /\ fetch_errors' = << RenderError(caught) >>
    /\ shares_default' = FALSE
    /\ pc' = "fetch_done"
    /\ UNCHANGED << params, output, out_before, errors, tables, table, result,
                    visited, nwrites, attempts, caught, snap_before, arg_names, ret, settings,
                    default_errors, aliased, carried >>

\* the host takes the FetchResult (snapshot, fetch_errors)
fetch_return ==
    /\ pc = "fetch_done"
    /\ to_idle
    /\ UNCHANGED << snapshot, fetch_errors, arg_names, ret, default_errors,
                    shares_default >>

(***************************************************************************)
(* render()                                                                *)
(***************************************************************************)
\* errors.append() and errors.extend() change the list itself: it changes
\* under every name it has
in_place ==
    /\ fetch_errors' = IF aliased THEN errors' ELSE fetch_errors
    /\ default_errors' = IF aliased /\ shares_default THEN errors' ELSE default_errors

\* render with `errors = fetch_result.errors`: no list of its own
render_aliases_errors ==
    /\ pc = "idle"
    /\ \E tablenum \in Tablenums, first_row_is_header \in BOOLEAN,
          before \in OutputsBefore :
         /\ params' = P(params.url, tablenum, first_row_is_header)
         /\ output' = before
         /\ out_before' = before
    /\ \E given \in SettingsSet : settings' = given
    /\ errors' = fetch_errors
    /\ aliased' = TRUE
    /\ carried' = fetch_errors
    /\ visited' = << "Start", "Classify" >>
    /\ pc' = "Classify"
    /\ UNCHANGED << snapshot, fetch_errors, tables, table, result, nwrites,
                    attempts, caught, snap_before, arg_names, ret,
                    default_errors, shares_default >>

\* line 187: render is called; errors = [e.message for e in fetch_result.errors]
render ==
    /\ pc = "idle"
    /\ \E tablenum \in Tablenums, first_row_is_header \in BOOLEAN,
          before \in OutputsBefore :
         /\ params' = P(params.url, tablenum, first_row_is_header)
         /\ output' = before
         /\ out_before' = before
    /\ \E given \in SettingsSet : settings' = given
    /\ errors' = Messages(fetch_errors)
    /\ aliased' = FALSE
    /\ carried' = fetch_errors
    /\ visited' = << "Start", "Classify" >>
    /\ pc' = "Classify"
    /\ UNCHANGED << snapshot, fetch_errors, tables, table, result, nwrites,
                    attempts, caught, snap_before, arg_names, ret,
                    default_errors, shares_default >>

\* classify that gives up on a file that is neither Parquet nor httpfile
classify_rejects_unknown(file) ==
    IF st_size(file) = 0 THEN "EmptyResult"
    ELSE IF file_has_parquet_magic_number(file) THEN "LegacyPath"
    ELSE IF file.head = "HTTP" THEN "HttpPath"
    ELSE "EmptyResult"

\* lines 189, 192, 200: which way the snapshot goes
classify(file) ==
    IF st_size(file) = 0 THEN "EmptyResult"
    ELSE IF file_has_parquet_magic_number(file) THEN "LegacyPath"
    ELSE "HttpPath"

Classify ==
    /\ pc = "Classify"
    /\ pc' = classify(snapshot)
    /\ visited' = Append(visited, pc')
    /\ UNCHANGED << snapshot, fetch_errors, params, output, out_before, errors,
                    tables, table, result, nwrites, attempts, caught, snap_before,
                    arg_names, ret, settings,
                    default_errors, shares_default, aliased, carried >>

\* EmptyResult with `return []`: the carried diagnostics are lost
EmptyResult_returns_nothing ==
    /\ pc = "EmptyResult"
    /\ result' = << >>
    /\ pc' = "Done"
    /\ visited' = Append(visited, "Done")
    /\ UNCHANGED << snapshot, fetch_errors, params, output, out_before, errors,
                    tables, table, nwrites, attempts, caught, snap_before,
                    arg_names, ret, settings,
                    default_errors, shares_default, aliased, carried >>

\* EmptyResult with `output_path.write_bytes(b"")` before the return
EmptyResult_truncates ==
    /\ pc = "EmptyResult"
    /\ result' = errors
    /\ output' = EmptyOutput
    /\ pc' = "Done"
    /\ visited' = Append(visited, "Done")
    /\ UNCHANGED << snapshot, fetch_errors, params, out_before, errors,
                    tables, table, nwrites, attempts, caught, snap_before,
                    arg_names, ret, settings,
                    default_errors, shares_default, aliased, carried >>

\* line 190: `return errors`
EmptyResult ==
    /\ pc = "EmptyResult"
    /\ result' = errors
    /\ pc' = "Done"
    /\ visited' = Append(visited, "Done")
    /\ UNCHANGED << snapshot, fetch_errors, params, output, out_before, errors,
                    tables, table, nwrites, attempts, caught, snap_before,
                    arg_names, ret, settings,
                    default_errors, shares_default, aliased, carried >>

\* table.columns of a Parquet file: an Index of str
column_texts(columns) == [i \in 1..Len(columns) |-> columns[i][2]]

\* lines 157-175: what _render_v0() returns
_render_v0(fetch_result_errors, render_errors) == fetch_result_errors \o render_errors

\* lines 193-198: `return _render_v0(...)`
LegacyPath ==
    /\ pc = "LegacyPath"
    /\ table' = snapshot.frame
    /\ LET written == write_dataframe(table', params.first_row_is_header,
                                      column_texts(table'.columns), settings)
       IN  /\ output' = written.file
           /\ result' = _render_v0(fetch_errors, written.warnings)
    /\ nwrites' = nwrites + 1
    /\ pc' = "Done"
    /\ visited' = Append(visited, "Done")
    /\ UNCHANGED << snapshot, fetch_errors, params, out_before, errors, tables,
                    attempts, caught, snap_before, arg_names, ret, settings,
                    default_errors, shares_default, aliased, carried >>

\* not_ok that knows one failure only
not_ok_only_404(status_line) == status_line = "404 Not Found"

\* line 207: `http.status_line != "200 OK"`
not_ok(status_line) == status_line # "200 OK"

http_notOk(status_line) == trans("http.notOk", << << "httpStatus", status_line >> >>)

\* HttpPath that reports the status line and goes on to the tables
HttpPath_keeps_going ==
    /\ pc = "HttpPath"
    /\ IF snapshot.head # "HTTP"
       THEN /\ pc' = "Raised"
            /\ visited' = Append(visited, "Raised")
            /\ UNCHANGED << errors, result >>
       ELSE /\ errors' = IF not_ok(snapshot.status_line)
                         THEN Append(errors, http_notOk(snapshot.status_line))
                         ELSE errors
            /\ pc' = "Locate"
            /\ visited' = Append(visited, "Locate")
            /\ UNCHANGED result
    /\ in_place
    /\ UNCHANGED << snapshot, params, output, out_before, tables,
                    table, nwrites, attempts, caught, snap_before, arg_names, ret, settings,
                    shares_default, aliased, carried >>

\* lines 206-215: httpfile.read() and the status line; a file that is no
\* httpfile makes httpfile.read() raise
HttpPath ==
    /\ pc = "HttpPath"
    /\ IF snapshot.head # "HTTP"
       THEN /\ pc' = "Raised"
            /\ visited' = Append(visited, "Raised")
            /\ UNCHANGED << errors, result >>
       ELSE IF not_ok(snapshot.status_line)
       THEN /\ errors' = Append(errors, http_notOk(snapshot.status_line))
            /\ result' = errors'
            /\ pc' = "Done"
            /\ visited' = Append(visited, "Done")
       ELSE /\ pc' = "Locate"
            /\ visited' = Append(visited, "Locate")
            /\ UNCHANGED << errors, result >>
    /\ in_place
    /\ UNCHANGED << snapshot, params, output, out_before, tables,
                    table, nwrites, attempts, caught, snap_before, arg_names, ret, settings,
                    shares_default, aliased, carried >>

html_noTables == trans("html.noTables", << >>)

html_noColumns == trans("html.noColumns", << >>)

\* Locate without the `if not len(tables)` of line 260
Locate_trusts_list ==
    /\ pc = "Locate"
    /\ LET parsed == _parse(snapshot.body)
       IN  IF parsed.raises = "ValueError"
           THEN /\ errors' = Append(errors, html_noTables)
                /\ result' = errors'
                /\ pc' = "Done"
                /\ UNCHANGED tables
           ELSE IF parsed.raises = "IndexError"
           THEN /\ errors' = Append(errors, html_noColumns)
                /\ result' = errors'
                /\ pc' = "Done"
                /\ UNCHANGED tables
           ELSE /\ tables' = parsed.tables
                /\ pc' = "Ordinal"
                /\ UNCHANGED << errors, result >>
    /\ visited' = Append(visited, pc')
    /\ in_place
    /\ UNCHANGED << snapshot, params, output, out_before, table,
                    nwrites, attempts, caught, snap_before, arg_names, ret, settings,
                    shares_default, aliased, carried >>

\* lines 226-265: pd.io.html._parse(), its two exceptions and `not len(tables)`
Locate ==
    /\ pc = "Locate"
    /\ LET parsed == _parse(snapshot.body)
       IN  IF parsed.raises = "ValueError"
           THEN /\ errors' = Append(errors, html_noTables)
                /\ result' = errors'
                /\ pc' = "Done"
                /\ UNCHANGED tables
           ELSE IF parsed.raises = "IndexError"
           THEN /\ errors' = Append(errors, html_noColumns)
                /\ result' = errors'
                /\ pc' = "Done"
                /\ UNCHANGED tables
           ELSE IF Len(parsed.tables) = 0
           THEN /\ errors' = Append(errors, html_noTables)
                /\ result' = errors'
                /\ pc' = "Done"
                /\ tables' = parsed.tables
           ELSE /\ tables' = parsed.tables
                /\ pc' = "Ordinal"
                /\ UNCHANGED << errors, result >>
    /\ visited' = Append(visited, pc')
    /\ in_place
    /\ UNCHANGED << snapshot, params, output, out_before, table,
                    nwrites, attempts, caught, snap_before, arg_names, ret, settings,
                    shares_default, aliased, carried >>

\* bad_tablenum with `< 0` for `<= 0`
bad_tablenum_lets_zero_in(tablenum, found) == tablenum < 0 \/ tablenum > Len(found)

\* line 267
bad_tablenum(tablenum, found) == tablenum <= 0 \/ tablenum > Len(found)

params_badTablenum(found) ==
    trans("params.badTablenum", << << "nTables", Len(found) >> >>)

\* lines 267-277: the table number, and `table = tables[params["tablenum"] - 1]`
Ordinal ==
    /\ pc = "Ordinal"
    /\ IF bad_tablenum(params.tablenum, tables)
       THEN /\ errors' = Append(errors, params_badTablenum(tables))
            /\ result' = errors'
            /\ pc' = "Done"
            /\ UNCHANGED table
       ELSE /\ table' = PyIndex(tables, params.tablenum - 1)
            /\ pc' = "Write"
            /\ UNCHANGED << errors, result >>
    /\ visited' = Append(visited, pc')
    /\ in_place
    /\ UNCHANGED << snapshot, params, output, out_before, tables,
                    nwrites, attempts, caught, snap_before, arg_names, ret, settings,
                    shares_default, aliased, carried >>

\* lines 279-289: merge the headers, write the table, `return errors`
Write ==
    /\ pc = "Write"
    /\ LET written == write_dataframe(table, params.first_row_is_header,
                                      _merge_colspan_headers(table.columns),
                                      settings)
       IN  /\ output' = written.file
           /\ errors' = errors \o written.warnings
    /\ result' = errors'
    /\ nwrites' = nwrites + 1
    /\ pc' = "Done"
    /\ visited' = Append(visited, "Done")
    /\ in_place
    /\ UNCHANGED << snapshot, params, out_before, tables, table,
                    attempts, caught, snap_before, arg_names, ret, settings,
                    shares_default, aliased, carried >>

\* render returned (or raised): the host takes the result
render_return ==
    /\ pc \in { "Done", "Raised" }
    /\ to_idle
    /\ UNCHANGED << snapshot, fetch_errors, arg_names, ret, default_errors,
                    shares_default >>

Next ==
    \/ fetch_arrow
    \/ download_ok
    \/ download_raises
    \/ except_HttpError
    \/ fetch_return
    \/ render
    \/ Classify
    \/ EmptyResult
    \/ LegacyPath
    \/ HttpPath
    \/ Locate
    \/ Ordinal
    \/ Write
    \/ render_return

Spec == Init /\ [][Next]_vars

(***************************************************************************)
(* A specification for _merge_colspan_headers() alone: the argument is any *)
(* list of up to MaxNames column names, and the one action calls it.       *)
(***************************************************************************)
HeaderTexts == { "A", "B" }

TupleNames == { TupleName(t) : t \in SeqsUpTo(HeaderTexts, MaxLevels) \ { << >> } }

ColumnNames ==
    { StrName(""), StrName("A"), StrName("A - B"), IntName(0), IntName(1) }
    \cup TupleNames

MergeInit ==
    /\ snapshot = EmptyFile
    /\ fetch_errors = << >>
    /\ default_errors = << >>
    /\ shares_default = FALSE
    /\ Idle
    /\ arg_names \in SeqsUpTo(ColumnNames, MaxNames)
    /\ ret = << >>

merge_call ==
    /\ pc = "idle"
    /\ ret' = _merge_colspan_headers(arg_names)
    /\ pc' = "merged"
    /\ UNCHANGED << snapshot, fetch_errors, params, output, out_before, errors,
                    tables, table, result, visited, nwrites, attempts, caught,
                    snap_before, arg_names, settings,
                    default_errors, shares_default, aliased, carried >>

MergeNext == merge_call

SpecMerge == MergeInit /\ [][MergeNext]_vars

(***************************************************************************)
(* What the claims read off a finished render.                             *)
(***************************************************************************)
\* the part of the result after the first Len(fetch_errors) entries
Produced ==
    IF Len(result) >= Len(fetch_errors)
    THEN SubSeq(result, Len(fetch_errors) + 1, Len(result))
    ELSE << >>

HasId(list, id) == \E i \in 1..Len(list) : list[i].id = id

ThroughHttpPath == Contains(visited, "HttpPath")

C2_EmptySnapshot ==
    (pc = "Done" /\ st_size(snapshot) = 0) =>
        /\ result = Messages(fetch_errors)
        /\ nwrites = 0
        /\ output = out_before

C2_Witness ==
    /\ pc = "Done"
    /\ st_size(snapshot) = 0
    /\ Len(fetch_errors) = 2
    /\ fetch_errors[1] # fetch_errors[2]
    /\ params.tablenum = 2
    /\ params.first_row_is_header

(***************************************************************************)
(* C3: on the httpfile path, http.notOk is in the result exactly when the  *)
(* status line is not "200 OK" (line 207: the one line the code takes as   *)
(* success).  Then it is the only diagnostic render adds, its httpStatus   *)
(* is the status line, no table is written and the tables are never        *)
(* located; with "200 OK" there is no http.notOk and the tables are        *)
(* located.                                                                *)
(***************************************************************************)
C3_HttpNotOk ==
    (pc = "Done" /\ ThroughHttpPath) =>
        /\ HasId(result, "http.notOk") <=> snapshot.status_line # "200 OK"
        /\ snapshot.status_line # "200 OK" =>
               /\ Produced =
                      << trans("http.notOk",
                               << << "httpStatus", snapshot.status_line >> >>) >>
               /\ nwrites = 0
               /\ output = out_before
               /\ ~Contains(visited, "Locate")
        /\ snapshot.status_line = "200 OK" => Contains(visited, "Locate")

C3_Witness ==
    /\ pc = "Done"
    /\ ThroughHttpPath
    /\ snapshot.status_line = "404 Not Found"
    /\ Len(snapshot.body.tables) = 2
    /\ fetch_errors # << >>
    /\ HasId(result, "http.notOk")

(***************************************************************************)
(* C4: on the httpfile path with n >= 1 located tables, a tablenum outside *)
(* 1..n (0 and negative numbers too) adds exactly params.badTablenum with  *)
(* nTables = n and writes no table; a tablenum inside 1..n selects the     *)
(* table at that position in document order and adds no                    *)
(* params.badTablenum.                                                     *)
(***************************************************************************)
C4_Tablenum ==
    (pc \in { "Write", "Done" } /\ Contains(visited, "Ordinal")) =>
        LET n == Len(snapshot.body.tables)
            t == params.tablenum
        IN  /\ n >= 1
            /\ (t < 1 \/ t > n) =>
                   /\ pc = "Done"
                   /\ Produced = << trans("params.badTablenum",
                                          << << "nTables", n >> >>) >>
                   /\ nwrites = 0
                   /\ output = out_before
                   /\ ~Contains(visited, "Write")
            /\ (1 <= t /\ t <= n) =>
                   /\ table = snapshot.body.tables[t]
                   /\ Contains(visited, "Write")
                   /\ ~HasId(result, "params.badTablenum")
                   /\ pc = "Done" => nwrites = 1

C4_Witness ==
    /\ pc = "Done"
    /\ Contains(visited, "Ordinal")
    /\ params.tablenum = 0
    /\ Len(snapshot.body.tables) = 2
    /\ snapshot.body.tables[1] # snapshot.body.tables[2]
    /\ HasId(result, "params.badTablenum")

(***************************************************************************)
(* C5: a render that ends without writing a table.                         *)
(***************************************************************************)
NoTableWritten == pc = "Done" /\ nwrites = 0

\* C5, as claimed: whenever render ends without writing a table, the file
\* at output_path is empty (zero bytes) afterwards, whatever it held before
\* the call; and one render writes at most one table.
C5_ExplicitlyEmpty ==
    /\ NoTableWritten => st_size(output) = 0
    /\ nwrites <= 1

\* C5, amended: whenever render ends without writing a table, it has not
\* touched output_path: the file holds what it held before the call (so it
\* is empty if, and only if, the caller handed over an empty file); and one
\* render writes at most one table.
C5_OutputUntouched ==
    /\ NoTableWritten =>
           /\ output = out_before
           /\ st_size(output) = 0 <=> st_size(out_before) = 0
    /\ nwrites <= 1

C5_Witness ==
    /\ NoTableWritten
    /\ st_size(out_before) > 0
    /\ HasId(result, "html.noTables")

(***************************************************************************)
(* C6: classification is total and goes by priority.  Every render goes    *)
(* Start, Classify, then exactly one of EmptyResult (iff the snapshot has  *)
(* zero bytes), LegacyPath (iff not, and it starts with the Parquet magic  *)
(* number) and HttpPath (everything else, unrecognized content included),  *)
(* and a render that returns ends in Done; classifying adds no diagnostic  *)
(* and returns nothing.                                                    *)
(***************************************************************************)
Branches == { "EmptyResult", "LegacyPath", "HttpPath" }

C6_Classification ==
    Len(visited) >= 3 =>
        LET branch == visited[3]
        IN  /\ SubSeq(visited, 1, 2) = << "Start", "Classify" >>
            /\ branch \in Branches
            /\ Cardinality({ i \in 1..Len(visited) : visited[i] \in Branches }) = 1
            /\ branch = "EmptyResult" <=> st_size(snapshot) = 0
            /\ branch = "LegacyPath" <=>
                   (st_size(snapshot) # 0 /\ snapshot.head = "PAR1")
            /\ branch = "HttpPath" <=>
                   (st_size(snapshot) # 0 /\ snapshot.head # "PAR1")
            /\ pc = branch =>
                   /\ errors = Messages(fetch_errors)
                   /\ result = << >>
                   /\ nwrites = 0
            /\ pc = "Done" => visited[Len(visited)] = "Done"

C6_Witness ==
    /\ pc = "HttpPath"
    /\ snapshot = UnknownFile
    /\ visited = << "Start", "Classify", "HttpPath" >>
    /\ fetch_errors # << >>

(***************************************************************************)
(* C7: header resolution, for the table of either path.  With              *)
(* first_row_is_header and at least one row, the given labels are dropped, *)
(* the first row names the columns and the other rows (one fewer) are the  *)
(* data.  Otherwise the given labels name the columns and every row is     *)
(* data; with no rows that is a written table of those columns and zero    *)
(* rows, and no error.                                                     *)
(***************************************************************************)
\* the names parse_csv makes of a header row: blank ones become "Column N"
Named(row) ==
    [i \in 1..Len(row) |-> IF row[i] = "" THEN "Column " \o NumText(i) ELSE row[i]]

\* the labels handed over with the table: the Parquet column names, or the
\* merged headers
GivenLabels ==
    IF Contains(visited, "LegacyPath")
    THEN [i \in 1..Len(table.columns) |-> table.columns[i][2]]
    ELSE _merge_colspan_headers(table.columns)

\* a list cut to its first n entries
Capped(list, n) == [i \in 1..(IF Len(list) < n THEN Len(list) ELSE n) |-> list[i]]

\* rows cut to the limits of `settings`, row count first and then each row
CappedRows(rows) ==
    LET kept == Capped(rows, settings.MAX_ROWS_PER_TABLE)
    IN  [i \in 1..Len(kept) |-> Capped(kept[i], settings.MAX_COLUMNS_PER_TABLE)]

C7_HeaderResolution ==
    (pc = "Done" /\ nwrites = 1) =>
        IF params.first_row_is_header /\ Len(table.rows) >= 1
        THEN /\ output.columns =
                    Capped(Named(table.rows[1]), settings.MAX_COLUMNS_PER_TABLE)
             /\ output.rows = CappedRows(Tail(table.rows))
             /\ Len(output.rows) <= Len(table.rows) - 1
        ELSE /\ output.columns =
                    Capped(Named(GivenLabels), settings.MAX_COLUMNS_PER_TABLE)
             /\ output.rows = CappedRows(table.rows)
             /\ st_size(output) > 0
             /\ \A i \in 1..Len(Produced) :
                    Produced[i].id \in { "util.colnames.warnings.default",
                                         "truncated.rows", "truncated.columns" }

C7_Witness ==
    /\ pc = "Done"
    /\ nwrites = 1
    /\ ThroughHttpPath
    /\ params.first_row_is_header
    /\ table.rows = << >>
    /\ output.columns = << "A", "B" >>
    /\ output.rows = << >>
    /\ st_size(output) > 0

(***************************************************************************)
(* C8: _merge_colspan_headers returns one label per name, in order, each   *)
(* from its own name alone: for a tuple, its texts top to bottom, each     *)
(* kept only where it first occurs, joined with " - "; for a str, the str  *)
(* itself; for an int, "".  Equal names give equal labels (nothing is      *)
(* made unique across columns) and no label is cut short.                  *)
(***************************************************************************)
\* the positions of `texts` whose text occurs at no earlier position
FirstOccurrences(texts) ==
    { j \in 1..Len(texts) : \A k \in 1..(j - 1) : texts[k] # texts[j] }

\* `texts` restricted to those positions, in order
KeptTexts(texts) ==
    LET kept == FirstOccurrences(texts)
    IN  [n \in 1..Cardinality(kept) |->
            texts[CHOOSE j \in kept : Cardinality({ k \in kept : k <= j }) = n]]

\* the texts with " - " between neighbours, built from the left
RECURSIVE Joined(_)
Joined(texts) ==
    IF texts = << >> THEN ""
    ELSE IF Len(texts) = 1 THEN texts[1]
    ELSE Joined(SubSeq(texts, 1, Len(texts) - 1)) \o " - " \o texts[Len(texts)]

C8_HeaderMerger ==
    pc = "merged" =>
        /\ Len(ret) = Len(arg_names)
        /\ \A i \in 1..Len(arg_names) :
               LET name == arg_names[i]
               IN  /\ name[1] = "tuple" => ret[i] = Joined(KeptTexts(name[2]))
                   /\ name[1] = "str" => ret[i] = name[2]
                   /\ name[1] = "int" => ret[i] = ""
        /\ \A i, j \in 1..Len(arg_names) :
               arg_names[i] = arg_names[j] => ret[i] = ret[j]

C8_Witness ==
    /\ pc = "merged"
    /\ Len(arg_names) = 2
    /\ arg_names[1] = TupleName(<< "A", "B", "A" >>)
    /\ arg_names[2] = TupleName(<< "A", "B" >>)
    /\ ret = << "A - B", "A - B" >>

(***************************************************************************)
(* C9: fetch_arrow with no url (None or "") makes no download attempt,     *)
(* leaves the file at output_path as it was and returns no errors.         *)
(***************************************************************************)
C9_NoUrl ==
    (pc = "fetch_done" /\ (~params.url.present \/ params.url.text = "")) =>
        /\ attempts = 0
        /\ snapshot = snap_before
        /\ fetch_errors = << >>

C9_Witness ==
    /\ pc = "fetch_done"
    /\ ~params.url.present
    /\ st_size(snapshot) > 0
    /\ snapshot.head = "HTTP"

(***************************************************************************)
(* C10: fetch_arrow with a url downloads exactly once.  A download that    *)
(* fails with an HttpError (a timeout is one) is handled, not raised: the  *)
(* file at output_path is zero bytes afterwards and the result carries     *)
(* exactly that one error.  A download that succeeds leaves the httpfile   *)
(* at output_path and the result carries no errors.                        *)
(***************************************************************************)
C10_OneAttempt ==
    /\ attempts <= 1
    /\ pc = "except" => (attempts = 1 /\ caught \in HttpErrorMessages)
    /\ pc = "Raised" => visited # << >>
    /\ (pc = "fetch_done" /\ params.url.present /\ params.url.text # "") =>
           /\ attempts = 1
           /\ IF caught \in HttpErrorMessages
              THEN /\ st_size(snapshot) = 0
                   /\ fetch_errors = << RenderError(caught) >>
              ELSE /\ caught = NoMessage
                   /\ fetch_errors = << >>
                   /\ snapshot \in HttpFiles

C10_Witness ==
    /\ pc = "fetch_done"
    /\ caught = cjwmodule_message("http.errors.HttpErrorTimeout", << >>)
    /\ st_size(snap_before) > 0
    /\ st_size(snapshot) = 0
    /\ Len(fetch_errors) = 1

(***************************************************************************)
(* C11: on the legacy path and on the HTTP path alike, a table that was    *)
(* written has at most MAX_ROWS_PER_TABLE rows and at most                 *)
(* MAX_COLUMNS_PER_TABLE columns, whatever the size of the table it was    *)
(* made from: the rows and columns kept are the leading ones, and each     *)
(* kind of excess is reported by a diagnostic returned with the table,     *)
(* which is written all the same.                                          *)
(***************************************************************************)
\* the rows of the selected table that are data, once the header is resolved
DataRows ==
    IF params.first_row_is_header /\ Len(table.rows) >= 1
    THEN Tail(table.rows)
    ELSE table.rows

C11_Guardrails ==
    (pc = "Done" /\ nwrites = 1) =>
        /\ Len(output.rows) <= settings.MAX_ROWS_PER_TABLE
        /\ Len(output.columns) <= settings.MAX_COLUMNS_PER_TABLE
        /\ \A i \in 1..Len(output.rows) :
               Len(output.rows[i]) <= settings.MAX_COLUMNS_PER_TABLE
        /\ output.rows = CappedRows(DataRows)
        /\ st_size(output) > 0
        /\ (Len(DataRows) > settings.MAX_ROWS_PER_TABLE)
               <=> HasId(Produced, "truncated.rows")
        /\ (Len(table.columns) > settings.MAX_COLUMNS_PER_TABLE)
               <=> HasId(Produced, "truncated.columns")

C11_Witness ==
    /\ pc = "Done"
    /\ nwrites = 1
    /\ Contains(visited, "LegacyPath")
    /\ Len(DataRows) = 2
    /\ Len(table.columns) = 2
    /\ settings = Settings(TightLimit, TightLimit)
    /\ Len(output.rows) = 1
    /\ Len(output.columns) = 1
    /\ HasId(Produced, "truncated.rows")
    /\ HasId(Produced, "truncated.columns")

(***************************************************************************)
(* C12: on the HttpPath the checks run in one order: the status line, the  *)
(* location of the tables, the table number, then the header merge and the *)
(* write.  The first check that fails ends the render: the result is the   *)
(* carried diagnostics followed by exactly one diagnostic, that of the     *)
(* failed check, and no later step was taken (a status line that is not    *)
(* "200 OK" with a table number out of range gives http.notOk alone).      *)
(* Diagnostics of the write appear only when all three checks passed.      *)
(***************************************************************************)
StatusPassed == ~not_ok(snapshot.status_line)

LocationPassed ==
    /\ _parse(snapshot.body).raises = ""
    /\ Len(_parse(snapshot.body).tables) > 0

OrdinalPassed == ~bad_tablenum(params.tablenum, _parse(snapshot.body).tables)

\* the steps of the HttpPath, in order
HttpSteps == << "Start", "Classify", "HttpPath", "Locate", "Ordinal", "Write" >>

\* the steps taken when the check after the n-th step ended the render
StoppedAfter(n) == SubSeq(HttpSteps, 1, n) \o << "Done" >>

TerminalIds == { "http.notOk", "html.noTables", "html.noColumns", "params.badTablenum" }

C12_FirstFailureStops ==
    (pc = "Done" /\ ThroughHttpPath) =>
        /\ SubSeq(result, 1, Len(fetch_errors)) = Messages(fetch_errors)
        /\ IF ~StatusPassed
           THEN /\ Produced = << http_notOk(snapshot.status_line) >>
                /\ visited = StoppedAfter(3)
                /\ nwrites = 0
           ELSE IF ~LocationPassed
           THEN /\ Len(Produced) = 1
                /\ Produced[1].id \in { "html.noTables", "html.noColumns" }
                /\ visited = StoppedAfter(4)
                /\ nwrites = 0
           ELSE IF ~OrdinalPassed
           THEN /\ Produced = << params_badTablenum(snapshot.body.tables) >>
                /\ visited = StoppedAfter(5)
                /\ nwrites = 0
           ELSE /\ visited = StoppedAfter(6)
                /\ nwrites = 1
                /\ \A i \in 1..Len(Produced) : Produced[i].id \notin TerminalIds

C12_Witness ==
    /\ pc = "Done"
    /\ ThroughHttpPath
    /\ snapshot.status_line = "404 Not Found"
    /\ LocationPassed
    /\ ~OrdinalPassed
    /\ fetch_errors # << >>
    /\ result = Messages(fetch_errors) \o << http_notOk("404 Not Found") >>

(***************************************************************************)
(* C13: a failure to locate the tables ends the render.  A page with no    *)
(* <table>, with a table of no rows or of rows without cells, or for which *)
(* the list of tables found is empty, gives exactly one html.noTables; a   *)
(* table with no columns gives exactly one html.noColumns.  In each case   *)
(* no table is written and the table number is never looked at.            *)
(***************************************************************************)
C13_LocationFailure ==
    (pc = "Done" /\ ThroughHttpPath /\ StatusPassed) =>
        /\ (\/ snapshot.body.kind \in TablelessKinds
            \/ snapshot.body.kind = "tables" /\ snapshot.body.tables = << >>)
               => /\ Produced = << html_noTables >>
                  /\ nwrites = 0
                  /\ output = out_before
                  /\ ~Contains(visited, "Ordinal")
        /\ snapshot.body.kind = "no_columns"
               => /\ Produced = << html_noColumns >>
                  /\ nwrites = 0
                  /\ output = out_before
                  /\ ~Contains(visited, "Ordinal")

\* an empty list of tables, with a table number that would be out of range
C13_Witness ==
    /\ pc = "Done"
    /\ ThroughHttpPath
    /\ StatusPassed
    /\ snapshot.body = Body("tables", << >>)
    /\ params.tablenum = 1
    /\ fetch_errors # << >>
    /\ result = Messages(fetch_errors) \o << html_noTables >>
    /\ nwrites = 0

(***************************************************************************)
(* C14: what render returns is a list of messages on all three paths: a    *)
(* carried diagnostic appears as its message, never as the RenderError     *)
(* record around it, so the carried part of the result on the LegacyPath   *)
(* is what it is on the other two paths.  Stated as: no entry of a         *)
(* returned list is a record other than a message.                         *)
(***************************************************************************)
C14_UniformRepresentation ==
    pc = "Done" =>
        \A i \in 1..Len(result) : DOMAIN result[i] = DOMAIN NoMessage

(***************************************************************************)
(* C15: nothing is shared between invocations.  The list that is the       *)
(* default of FetchResult.errors stays empty for ever; render leaves       *)
(* fetch_result.errors as it was when it was called, also when that is the *)
(* default list; and what render returns is a function of the snapshot,    *)
(* the params, the settings and the carried diagnostics of that call       *)
(* alone, so the same inputs give the same diagnostics whatever ran        *)
(* before.                                                                 *)
(***************************************************************************)
\* what the HttpPath returns after the carried messages
HttpDiagnostics(file, p, limits) ==
    LET parsed == _parse(file.body)
    IN  IF not_ok(file.status_line) THEN << http_notOk(file.status_line) >>
        ELSE IF parsed.raises = "ValueError" THEN << html_noTables >>
        ELSE IF parsed.raises = "IndexError" THEN << html_noColumns >>
        ELSE IF parsed.tables = << >> THEN << html_noTables >>
        ELSE IF bad_tablenum(p.tablenum, parsed.tables)
        THEN << params_badTablenum(parsed.tables) >>
        ELSE LET chosen == parsed.tables[p.tablenum]
             IN  write_dataframe(chosen, p.first_row_is_header,
                                 _merge_colspan_headers(chosen.columns),
                                 limits).warnings

\* what render returns, from its arguments alone
Diagnostics(file, p, given, limits) ==
    IF st_size(file) = 0 THEN Messages(given)
    ELSE IF file_has_parquet_magic_number(file)
    THEN given \o write_dataframe(file.frame, p.first_row_is_header,
                                  column_texts(file.frame.columns), limits).warnings
    ELSE Messages(given) \o HttpDiagnostics(file, p, limits)

RenderRunning ==
    pc \in { "Classify", "EmptyResult", "LegacyPath", "HttpPath", "Locate",
             "Ordinal", "Write", "Done", "Raised" }

C15_NoSharedState ==
    /\ default_errors = << >>
    /\ shares_default => fetch_errors = default_errors
    /\ RenderRunning => fetch_errors = carried
    /\ pc = "Done" => result = Diagnostics(snapshot, params, carried, settings)

\* a render that appended a diagnostic while fetch_result.errors was the
\* default list, after a fetch that returned that list
C15_Witness ==
    /\ pc = "Done"
    /\ ThroughHttpPath
    /\ shares_default
    /\ carried = << >>
    /\ result = << params_badTablenum(tables) >>
    /\ Len(tables) = 2
    /\ default_errors = << >>
    /\ fetch_errors = << >>

====
